---- MODULE Spec2Model ----

(***************************************************************************)
(* Vaga Certa: job-posting extraction, validation and generation agents.   *)
(*                                                                         *)
(* Spec        one invocation of an agent method (content extraction,      *)
(*             title/company extraction, career-materials generation)      *)
(*             stepping through its awaits: direct fetch, CORS proxies,    *)
(*             generative-model call.                                      *)
(* SpecContent the Content Validator applied to one text.                  *)
(*                                                                         *)
(* Texts.  A short string (title, company) is a sequence of characters,    *)
(* each character a one-letter string ("a~" stands for the letter a with   *)
(* tilde).  A long text (page text, model answer) is the record of the     *)
(* measurements validate_and_score_job_content takes of it:                *)
(*   len    length of the text after strip()                               *)
(*   crit   how many of the 8 critical keywords occur in it                *)
(*   ctx    how many of the 12 context keywords occur in it                *)
(*   words  number of whitespace-separated words longer than 3 characters  *)
(*   uniq   number of distinct such words, lower-cased                     *)
(*   err    whether an error indicator occurs in it                        *)
(*   list   whether the list-markup pattern matches it                     *)
(***************************************************************************)
EXTENDS Integers, Sequences, FiniteSets, TLC

VARIABLES
    content,     \* SpecContent: the text handed to the Content Validator
    validation,  \* SpecContent, SpecDetails: the ValidationResult returned
    details,     \* SpecDetails: the (job_title, company) pair handed to the Details Validator
    texts,       \* SpecCompatibility: the (job_description, cv_text) pair
    insights,    \* SpecCompatibility: the CompatibilityInsights returned
    agent,       \* Spec: the agent object (use_web_scraping, web_scraper)
    call         \* Spec: the running invocation (arguments, position, locals, result)

vars == <<content, validation, details, texts, insights, agent, call>>

Min(a, b) == IF a < b THEN a ELSE b
Max(a, b) == IF a > b THEN a ELSE b

(***************************************************************************)
(* Short strings                                                           *)
(***************************************************************************)
LowerMap ==
    [A |-> "a", B |-> "b", C |-> "c", D |-> "d", E |-> "e", F |-> "f", G |-> "g",
     H |-> "h", I |-> "i", J |-> "j", K |-> "k", L |-> "l", M |-> "m", N |-> "n",
     O |-> "o", P |-> "p", Q |-> "q", R |-> "r", S |-> "s", T |-> "t", U |-> "u",
     V |-> "v", W |-> "w", X |-> "x", Y |-> "y", Z |-> "z"]

\* str.lower()
Lower(s) == [i \in 1..Len(s) |-> IF s[i] \in DOMAIN LowerMap THEN LowerMap[s[i]] ELSE s[i]]

AlnumLower ==
    {"a", "b", "c", "d", "e", "f", "g", "h", "i", "j", "k", "l", "m", "n", "o", "p",
     "q", "r", "s", "t", "u", "v", "w", "x", "y", "z",
     "0", "1", "2", "3", "4", "5", "6", "7", "8", "9"}

IsAlnumLower(c) == c \in AlnumLower

Whitespace == {" ", "\t", "\n"}

RECURSIVE LStrip(_)
LStrip(s) == IF s # <<>> /\ Head(s) \in Whitespace THEN LStrip(Tail(s)) ELSE s

RECURSIVE RStrip(_)
RStrip(s) ==
    IF s # <<>> /\ s[Len(s)] \in Whitespace THEN RStrip(SubSeq(s, 1, Len(s) - 1)) ELSE s

\* str.strip()
Strip(s) == RStrip(LStrip(s))

\* re.sub(r"[^a-z0-9]+", "", value.lower())
_normalize_generic_term(value) == SelectSeq(Lower(value), IsAlnumLower)

generic_terms ==
    { <<"n","o","t"," ","f","o","u","n","d">>,
      <<"n","/","a">>,
      <<"n","a">>,
      <<"u","n","k","n","o","w","n">>,
      <<"t","b","d">>,
      <<"t","o"," ","b","e"," ","d","e","t","e","r","m","i","n","e","d">>,
      <<"n","a~","o"," ","e","n","c","o","n","t","r","a","d","o">>,
      <<"d","e","s","c","o","n","h","e","c","i","d","o">>,
      <<"e","r","r","o","r">>,
      <<"n","o","n","e">>,
      <<"n","u","l","l">>,
      <<"c","o","m","p","a","n","y">> }

normalized_generics == {_normalize_generic_term(term) : term \in generic_terms}

ValidationResult(is_valid, score, reasons) ==
    [is_valid |-> is_valid, score |-> score, reasons |-> reasons]

(***************************************************************************)
(* Details Validator                                                       *)
(***************************************************************************)
TitleLengthReason(title_lower) ==
    IF Len(title_lower) < 5 THEN <<"Titulo muito curto">>
    ELSE IF Len(title_lower) > 100 THEN <<"Titulo muito longo">>
    ELSE <<"Titulo valido">>

\* variant: the lower edge of the title band one character too low
TitlePointsFromFour(title_lower) ==
    IF Len(title_lower) < 4 \/ Len(title_lower) > 100 THEN 0 ELSE 50

TitlePoints(title_lower) ==
    IF Len(title_lower) < 5 \/ Len(title_lower) > 100 THEN 0 ELSE 50

CompanyLengthReason(company_lower) ==
    IF Len(company_lower) < 2 THEN <<"Nome da empresa muito curto">>
    ELSE IF Len(company_lower) > 100 THEN <<"Nome da empresa muito longo">>
    ELSE <<"Empresa valida">>

CompanyPoints(company_lower) ==
    IF Len(company_lower) < 2 \/ Len(company_lower) > 100 THEN 0 ELSE 50

\* t occurs in s as a contiguous part
Contains(s, t) == \E i \in 1..(Len(s) - Len(t) + 1) : SubSeq(s, i, i + Len(t) - 1) = t

\* variant: substring containment instead of equality
IsGenericBySubstring(normalized) ==
    \E term \in normalized_generics : Contains(normalized, term)

\* title_normalized in normalized_generics
IsGeneric(normalized) == normalized \in normalized_generics

\* variant: the early return hands back the running score and reasons
RejectedKeepingScore(score, reasons, reason) ==
    ValidationResult(FALSE, score, reasons \o <<reason>>)

\* return ValidationResult(False, 0, [reason]): the score and the reasons
\* accumulated so far are dropped
Rejected(score, reasons, reason) == ValidationResult(FALSE, 0, <<reason>>)

validate_and_score_job_details(job_title, company) ==
    LET title_lower == Strip(Lower(job_title))
        company_lower == Strip(Lower(company))
        title_normalized == _normalize_generic_term(job_title)
        company_normalized == _normalize_generic_term(company)
        title_score == TitlePoints(title_lower)
        title_reasons == TitleLengthReason(title_lower)
        score == title_score + CompanyPoints(company_lower)
        reasons == title_reasons \o CompanyLengthReason(company_lower)
    IN  IF job_title = <<>> \/ Len(title_lower) = 0
            THEN Rejected(0, <<>>, "Titulo da vaga ausente")
        ELSE IF IsGeneric(title_normalized)
            THEN Rejected(0, <<>>, "Titulo generico/invalido")
        ELSE IF company = <<>> \/ Len(company_lower) = 0
            THEN Rejected(title_score, title_reasons, "Nome da empresa ausente")
        ELSE IF IsGeneric(company_normalized)
            THEN Rejected(title_score, title_reasons, "Empresa generica/invalida")
        ELSE ValidationResult(score >= 90, score, reasons)

(***************************************************************************)
(* Content Validator                                                       *)
(***************************************************************************)
\* variant: the first band reaches up to 500 characters
StructuralPointsUpTo500(length) ==
    IF length <= 500 THEN 0
    ELSE IF length < 1000 THEN 10
    ELSE IF length < 3000 THEN 20
    ELSE 30

\* CAMADA 1: length band of the stripped text
StructuralPoints(length) ==
    IF length < 500 THEN 0
    ELSE IF length < 1000 THEN 10
    ELSE IF length < 3000 THEN 20
    ELSE 30

StructuralReason(length) ==
    IF length < 500 THEN "Conteudo muito curto"
    ELSE IF length < 1000 THEN "Tamanho aceitavel mas curto"
    ELSE IF length < 3000 THEN "Tamanho adequado"
    ELSE "Tamanho excelente"

\* CAMADA 2: keyword hits
critical_score(found_critical) == Min(20, found_critical * 5)
context_score(found_context) == Min(20, found_context * 2)

\* CAMADA 3: diversity_ratio = uniq / words compared with 0.5 and 0.3
DiversityPoints(words, uniq) ==
    IF words = 0 THEN 0
    ELSE IF 2 * uniq > words THEN 15
    ELSE IF 10 * uniq > 3 * words THEN 8
    ELSE 0

\* variant: a diversity entry also for a text without counted words
DiversityReasonUnguarded(words, uniq) ==
    IF 2 * uniq > words THEN <<"Boa diversidade lexical">>
    ELSE IF 10 * uniq > 3 * words THEN <<"Diversidade lexical moderada">>
    ELSE <<"Baixa diversidade lexical">>

DiversityReason(words, uniq) ==
    IF words = 0 THEN <<>>
    ELSE IF 2 * uniq > words THEN <<"Boa diversidade lexical">>
    ELSE IF 10 * uniq > 3 * words THEN <<"Diversidade lexical moderada">>
    ELSE <<"Baixa diversidade lexical">>

\* error indicators: 30 points off, floored at 0; else 15 points
ErrorAdjust(score, has_errors) == IF has_errors THEN Max(0, score - 30) ELSE score + 15

ErrorReason(has_errors) ==
    IF has_errors THEN "Detectados indicadores de erro na pagina"
    ELSE "Nenhum indicador de erro detectado"

\* variant: the bonus added without min(100, ...)
ListBonusMissingCap(score, has_list_structure) ==
    IF has_list_structure THEN score + 5 ELSE score

\* list markup: 5 points, capped at 100
ListBonus(score, has_list_structure) ==
    IF has_list_structure THEN Min(100, score + 5) ELSE score

ListReason(has_list_structure) ==
    IF has_list_structure THEN <<"Estrutura de lista detectada">> ELSE <<>>

\* variant: a strict threshold
IsValidAboveThreshold(score) == score > 30

\* is_valid = score >= 30
IsValidContentScore(score) == score >= 30

validate_and_score_job_content(c) ==
    IF c.len = 0
        THEN ValidationResult(FALSE, 0, <<"Conteudo vazio">>)
    ELSE
        LET s1 == StructuralPoints(c.len)
            s2 == s1 + critical_score(c.crit)
            s3 == s2 + context_score(c.ctx)
            s4 == s3 + DiversityPoints(c.words, c.uniq)
            s5 == ErrorAdjust(s4, c.err)
            score == ListBonus(s5, c.list)
            reasons ==
                <<StructuralReason(c.len), "palavras-chave criticas encontradas",
                  "palavras de contexto encontradas">>
                \o DiversityReason(c.words, c.uniq)
                \o <<ErrorReason(c.err)>>
                \o ListReason(c.list)
        IN  ValidationResult(IsValidContentScore(score), score, reasons)

(***************************************************************************)
(* Texts the Content Validator is applied to                               *)
(***************************************************************************)
MaxExtraLen == 0
MaxWords == 10

\* the length thresholds of CAMADA 1
LengthBands == {500, 1000, 3000}

\* 14 is the length of the phrase "Vaga de Python"
TextLengths ==
    {0, 1, 14} \cup {t - 1 : t \in LengthBands}
           \cup {t + k : t \in LengthBands, k \in 0..MaxExtraLen}

\* a measurement record that some text has: a keyword hit lies inside a word
\* longer than 3 characters, n such words take at least 5n - 1 characters,
\* the shortest critical keyword has 10 characters, the shortest context
\* keyword 4, the shortest error indicator 3
IsText(c) ==
    /\ c.uniq <= c.words
    /\ (c.words > 0 => c.uniq > 0 /\ c.len >= 5 * c.words - 1)
    /\ (c.crit + c.ctx > 0 => c.words > 0)
    /\ (c.crit > 0 => c.len >= 10)
    /\ (c.ctx > 0 => c.len >= 4)
    /\ (c.err => c.len >= 3)
    /\ (c.list => c.len >= 1)

Texts ==
    {c \in [len : TextLengths, crit : 0..8, ctx : 0..12, words : 0..MaxWords,
            uniq : 0..MaxWords, err : BOOLEAN, list : BOOLEAN] : IsText(c)}

NoValidation == ValidationResult(FALSE, -1, <<>>)

\* values of the variables a specification does not use
NoDetails == [job_title |-> <<>>, company |-> <<>>]
NoTexts == [job_description |-> <<>>, cv_text |-> <<>>]
NoInsights == [score |-> -1]

(***************************************************************************)
(* SpecContent: validate_and_score_job_content on one text                 *)
(***************************************************************************)
InitContent ==
    /\ content \in Texts
    /\ validation = NoValidation
    /\ details = NoDetails /\ texts = NoTexts /\ insights = NoInsights
    /\ agent = [use_web_scraping |-> FALSE, web_scraper |-> FALSE]
    /\ call = [pc |-> "none"]

ValidateContent ==
    /\ validation = NoValidation
    /\ validation' = validate_and_score_job_content(content)
    /\ UNCHANGED <<content, details, texts, insights, agent, call>>

NextContent == ValidateContent

SpecContent == InitContent /\ [][NextContent]_vars

\* C9: the score the Content Validator returns is an integer from 0 to 100
ContentScoreInRange ==
    validation # NoValidation => validation.score \in 0..100

\* C9 witness: the 5-point list bonus was cut at the cap of 100
ContentScoreAtCap ==
    /\ validation # NoValidation
    /\ content.list /\ ~content.err
    /\ validation.score = 100
    /\ StructuralPoints(content.len) + critical_score(content.crit)
         + context_score(content.ctx) + DiversityPoints(content.words, content.uniq) = 85

\* C10: is_valid is true exactly when the score is at least 30, and an empty or
\* whitespace-only text gets is_valid = false, score 0 and a reason
ContentValidIffThreshold ==
    validation # NoValidation =>
        /\ validation.is_valid <=> validation.score >= 30
        /\ content.len = 0 =>
               /\ validation.is_valid = FALSE
               /\ validation.score = 0
               /\ validation.reasons # <<>>

\* C10 witness: a text scoring exactly 30 was accepted
ContentAcceptedAtThreshold ==
    /\ validation # NoValidation
    /\ validation.score = 30
    /\ validation.is_valid

\* the phrase "Vaga de Python": 14 characters, the context keyword "vaga",
\* two distinct words longer than 3 characters
TextVagaDePython ==
    [len |-> 14, crit |-> 0, ctx |-> 1, words |-> 2, uniq |-> 2,
     err |-> FALSE, list |-> FALSE]

HasReason(result, reason) == \E i \in 1..Len(result.reasons) : result.reasons[i] = reason

\* C11: every non-empty text whose stripped length is below 500 gets
\* is_valid = false and a reason saying the content is too short
ShortContentRejected ==
    (validation # NoValidation /\ content.len \in 1..499) =>
        /\ validation.is_valid = FALSE
        /\ HasReason(validation, "Conteudo muito curto")

LengthReasons ==
    {"Conteudo muito curto", "Tamanho aceitavel mas curto", "Tamanho adequado",
     "Tamanho excelente"}

DiversityReasons ==
    {"Boa diversidade lexical", "Diversidade lexical moderada", "Baixa diversidade lexical"}

ErrorReasons ==
    {"Detectados indicadores de erro na pagina", "Nenhum indicador de erro detectado"}

\* the entries of reasons from position `from` on: the error-scan entry, then
\* the list-markup entry exactly when the text has list markup
EndsWithErrorAndList(reasons, from) ==
    /\ Len(reasons) = from + (IF content.list THEN 1 ELSE 0)
    /\ reasons[from] \in ErrorReasons
    /\ content.list => reasons[Len(reasons)] = "Estrutura de lista detectada"

\* C12 as stated: for every non-empty text the reasons are, in order, the
\* length band, the critical-keyword count, the context-keyword count, the
\* lexical diversity and the error scan, then the list-markup entry if any
ReasonsOnePerLayer ==
    (validation # NoValidation /\ content.len > 0) =>
        /\ Len(validation.reasons) >= 5
        /\ validation.reasons[1] \in LengthReasons
        /\ validation.reasons[2] = "palavras-chave criticas encontradas"
        /\ validation.reasons[3] = "palavras de contexto encontradas"
        /\ validation.reasons[4] \in DiversityReasons
        /\ EndsWithErrorAndList(validation.reasons, 5)

\* C12 amended: the lexical-diversity entry is present exactly when the text
\* has a word longer than 3 characters; the other entries are always there,
\* in evaluation order
ReasonsOnePerDecision ==
    (validation # NoValidation /\ content.len > 0) =>
        /\ Len(validation.reasons) >= 4
        /\ validation.reasons[1] \in LengthReasons
        /\ validation.reasons[2] = "palavras-chave criticas encontradas"
        /\ validation.reasons[3] = "palavras de contexto encontradas"
        /\ IF content.words > 0
               THEN /\ Len(validation.reasons) >= 5
                    /\ validation.reasons[4] \in DiversityReasons
                    /\ EndsWithErrorAndList(validation.reasons, 5)
               ELSE EndsWithErrorAndList(validation.reasons, 4)

\* C12 witness: a non-empty text without a word longer than 3 characters was
\* scored and its reasons go from the context count straight to the error scan
NoDiversityEntryWithoutWords ==
    /\ validation # NoValidation
    /\ content.len > 0 /\ content.words = 0
    /\ validation.reasons[3] = "palavras de contexto encontradas"
    /\ validation.reasons[4] \in ErrorReasons

\* the points the claim gives a length
BandPoints(length) ==
    CASE length < 500 -> 0
      [] length \in 500..999 -> 10
      [] length \in 1000..2999 -> 20
      [] OTHER -> 30

BandReason(length) ==
    CASE length < 500 -> "Conteudo muito curto"
      [] length \in 500..999 -> "Tamanho aceitavel mas curto"
      [] length \in 1000..2999 -> "Tamanho adequado"
      [] OTHER -> "Tamanho excelente"

\* the text measured like content except for its length
Twin(length) == [content EXCEPT !.len = length]

\* C25: the structural layer gives 0, 10, 20 or 30 points for fewer than 500,
\* 500 to 999, 1000 to 2999 and at least 3000 characters: the first reason
\* names the band, and two texts measured alike but for the length, free of
\* error indicators and list markup, differ in score by the difference of
\* their bands (10 between 499 and 500 characters)
StructuralBands ==
    (validation # NoValidation /\ content.len > 0) =>
        /\ validation.reasons[1] = BandReason(content.len)
        /\ (~content.err /\ ~content.list) =>
               \A l \in TextLengths \ {0} :
                   IsText(Twin(l)) =>
                       validation.score - validate_and_score_job_content(Twin(l)).score
                           = BandPoints(content.len) - BandPoints(l)
        /\ (content.len = 500 /\ ~content.err) =>
               validation.score - validate_and_score_job_content(Twin(499)).score = 10

\* C25 witness: a text of exactly 500 characters was scored 10 points above
\* its twin of 499 characters
FiveHundredScoresTenAboveTwin ==
    /\ validation # NoValidation
    /\ content.len = 500 /\ ~content.err /\ content.words > 0
    /\ validation.reasons[1] = "Tamanho aceitavel mas curto"
    /\ validate_and_score_job_content(Twin(499)).reasons[1] = "Conteudo muito curto"
    /\ validation.score = validate_and_score_job_content(Twin(499)).score + 10

(***************************************************************************)
(* Inputs of one invocation                                                *)
(***************************************************************************)
\* A URL is modelled by what urlparse yields of it.
Url(text, given, scheme, netloc, raises) ==
    [text |-> text, given |-> given, scheme |-> scheme, netloc |-> netloc, raises |-> raises]

UrlNone == Url("None", FALSE, FALSE, FALSE, FALSE)
UrlEmpty == Url("", FALSE, FALSE, FALSE, FALSE)
UrlGood == Url("https://jobs.example.com/vaga/1", TRUE, TRUE, TRUE, FALSE)
UrlNoScheme == Url("jobs.example.com/vaga/1", TRUE, FALSE, FALSE, FALSE)
UrlNoHost == Url("https:///vaga/1", TRUE, TRUE, FALSE, FALSE)
UrlHostOnly == Url("//jobs.example.com/vaga/1", TRUE, FALSE, TRUE, FALSE)
UrlBracket == Url("https://[vaga/1", TRUE, FALSE, FALSE, TRUE)

UrlStrings == {UrlEmpty, UrlGood, UrlNoScheme, UrlNoHost, UrlHostOnly, UrlBracket}

\* urlparse(url) raised, or parsed.scheme or parsed.netloc is empty
UrlInvalid(url) == url.raises \/ ~url.scheme \/ ~url.netloc

Text(len, crit, ctx, words, uniq, err, list) ==
    [len |-> len, crit |-> crit, ctx |-> ctx, words |-> words, uniq |-> uniq,
     err |-> err, list |-> list]

TextEmpty == Text(0, 0, 0, 0, 0, FALSE, FALSE)
\* 180 characters, scores 0+5+4+15+15 = 39
TextShortPosting == Text(180, 1, 2, 24, 20, FALSE, FALSE)
\* 320 characters of an error page, scores max(0, 0+0+2+15-30) = 0
TextErrorPage == Text(320, 0, 1, 40, 30, TRUE, FALSE)
\* 640 characters of a login wall, scores 10+0+0+0+15 = 25
TextLoginWall == Text(640, 0, 0, 90, 20, FALSE, FALSE)
\* 1200 characters of a posting, scores 20+10+8+15+15+5 = 73
TextPosting == Text(1200, 2, 4, 150, 110, FALSE, TRUE)

PageTexts == {TextEmpty, TextShortPosting, TextErrorPage, TextLoginWall, TextPosting}

S_Empty == <<>>
S_NA == <<"N","/","A">>
S_Dev == <<"D","e","v">>
S_DataEngineer == <<"D","a","t","a"," ","E","n","g","i","n","e","e","r">>
S_Acme == <<"A","c","m","e">>
S_Company == <<"C","o","m","p","a","n","y">>
S_PaddedDataEngineer == <<" ">> \o S_DataEngineer \o <<"\n">>
S_PaddedAcme == <<" ">> \o S_Acme

TitleCompanyPairs ==
    { <<S_Empty, S_Empty>>, <<S_DataEngineer, S_Acme>>, <<S_NA, S_Acme>>,
      <<S_Dev, S_Acme>>, <<S_DataEngineer, S_Empty>>, <<S_DataEngineer, S_Company>> }

\* the dictionary _parse_html returns (description is read by no caller)
ParsedPage(title, company, full_text) ==
    [title |-> Strip(title), company |-> Strip(company), fullText |-> full_text]

Pages == {ParsedPage(tc[1], tc[2], t) : tc \in TitleCompanyPairs, t \in PageTexts}

NoPage == ParsedPage(S_Empty, S_Empty, TextEmpty)

\* what one GET plus _parse_html comes to: a parsed page, or an exception
FetchFailures == {"network_error", "status_error", "timeout", "parse_error"}

HttpOutcomes ==
    {[kind |-> "page", page |-> p] : p \in Pages}
        \cup {[kind |-> k, page |-> NoPage] : k \in FetchFailures}

\* the model's answer to the content prompt: a text, or an exception
ContentAnswers ==
    {[kind |-> "text", text |-> t] : t \in PageTexts}
        \cup {[kind |-> "error", text |-> TextEmpty]}

\* the model's answer to the details prompt after JsonOutputParser
Dict_Camel(title, company) == [jobTitle |-> title, company |-> company]
Dict_Snake(title, company) == [job_title |-> title, company |-> company]
Dict_NoTitle(company) == [company |-> company]
Dict_Empty == [x \in {} |-> S_Empty]

AnswerPairs ==
    TitleCompanyPairs \cup { <<S_PaddedDataEngineer, S_PaddedAcme>> }

DetailsAnswers ==
    {[kind |-> "dict", dict |-> Dict_Camel(tc[1], tc[2])] : tc \in AnswerPairs}
        \cup {[kind |-> "dict", dict |-> Dict_Snake(tc[1], tc[2])] : tc \in AnswerPairs}
        \cup {[kind |-> "dict", dict |-> Dict_NoTitle(S_Acme)],
              [kind |-> "other", dict |-> Dict_Empty],
              [kind |-> "string", dict |-> Dict_Empty],
              [kind |-> "string", dict |-> Dict_Camel(S_DataEngineer, S_Acme)],
              [kind |-> "error", dict |-> Dict_Empty]}

\* the model's answer to the generation prompt
GenerationAnswers == {[kind |-> "text"], [kind |-> "error"]}

NoAnswer == [kind |-> "none"]
\* stripped lengths of the job_content argument, around the 100-character minimum
JobContentLengths == {0, 99, 100, 1200}
\* stripped lengths of the cv argument, around the 50-character minimum
CvLengths == {0, 49, 50}
\* stripped lengths of the job_description argument
JobDescriptionLengths == {0, 99, 100}

ContentArgs == {[job_url |-> u] : u \in UrlStrings}

DetailsArgs ==
    {[job_content |-> n, job_url |-> u] :
        n \in JobContentLengths, u \in UrlStrings \cup {UrlNone}}

GenerateArgs ==
    {[cv |-> n, job_title |-> t, company |-> c, job_description |-> d] :
        n \in CvLengths, t \in {S_Empty, S_DataEngineer}, c \in {S_Empty, S_Acme},
        d \in JobDescriptionLengths}

(***************************************************************************)
(* Results and errors                                                      *)
(***************************************************************************)
NoValue == [none |-> TRUE]
\* what an error message quotes of the failure behind it
Cause(msg, score, reasons) == [msg |-> msg, score |-> score, reasons |-> reasons]
NoCause == Cause("", 0, <<>>)
ModelCallFailed == Cause("model call failed", 0, <<>>)

NoError == [type |-> "none", msg |-> "", attempts |-> <<>>, cause |-> NoCause, actions |-> <<>>]
Pending == [status |-> "pending", value |-> NoValue, error |-> NoError]

Returned(value) == [status |-> "returned", value |-> value, error |-> NoError]

ValueError(msg, cause) ==
    [type |-> "ValueError", msg |-> msg, attempts |-> <<>>, cause |-> cause, actions |-> <<>>]

Raised(error) == [status |-> "raised", value |-> NoValue, error |-> error]

\* the message built at extraction_agent.py:208-218
CompleteFailure(c, cause) ==
    [type |-> "ValueError",
     msg |-> "Falha completa ao extrair conteudo da URL",
     attempts |-> <<"Web scraping direto", "Extracao via IA">>,
     cause |-> cause,
     actions |-> <<"Cole o conteudo da vaga manualmente",
                   "Verifique se a URL esta correta e acessivel",
                   "Tente novamente em alguns minutos">>]

Accepted(v) == [is_valid |-> TRUE, score |-> v.score, reasons |-> v.reasons]

Finish(c, result) == [c EXCEPT !.pc = "done", !.result = result]
Goto(c, pc) == [c EXCEPT !.pc = pc]

\* await self.web_scraper.scrape_job_posting(job_url) with a URL that passes its check
StartScrape(c) == [c EXCEPT !.pc = "direct", !.scrape = "running"]

\* variant: no except clause around the scrape
ScrapeRaisedToCaller(c) ==
    Finish([c EXCEPT !.scrape = "raised"],
           Raised(ValueError("Falha ao extrair conteudo da URL", NoCause)))

\* scrape_job_posting raised ValueError: both callers catch it, log it and go on
\* to the model
ScrapeRaised(c) == [c EXCEPT !.pc = "llm", !.scrape = "raised"]

\* scrape_job_posting returned scraped_data
ScrapeReturned(c, page) == [c EXCEPT !.scrape = "returned", !.scraped = page]

NewCall(op, args) ==
    [op |-> op, args |-> args, pc |-> "start", scrape |-> "not called", proxy |-> 0,
     log |-> <<>>, scraped |-> NoPage, answer |-> NoAnswer, result |-> Pending]

\* self.use_web_scraping and self.web_scraper
ScrapingOn(a) == a.use_web_scraping /\ a.web_scraper

(***************************************************************************)
(* ExtractionAgent.extract_job_content_from_url                            *)
(***************************************************************************)
\* lines 86-98: the URL check, then the first strategy
ContentBegin(a, c) ==
    IF UrlInvalid(c.args.job_url)
        THEN Finish(c, Raised(ValueError("URL invalida", NoCause)))
    ELSE IF ScrapingOn(a) THEN StartScrape(c)
    ELSE Goto(c, "llm")

\* variant: the scraped page returned without the is_valid gate
ContentScrapedAcceptAny(c, page) ==
    LET v == validate_and_score_job_content(page.fullText)
    IN  Finish(ScrapeReturned(c, page),
               Returned([content |-> page.fullText, title |-> page.title,
                         company |-> page.company, validation |-> Accepted(v),
                         source |-> "web_scraping"]))

\* lines 98-126: scrape_job_posting returned scraped_data
ContentScraped(c, page) ==
    LET v == validate_and_score_job_content(page.fullText)
    IN  IF v.is_valid
            THEN Finish(ScrapeReturned(c, page),
                        Returned([content |-> page.fullText, title |-> page.title,
                                  company |-> page.company, validation |-> Accepted(v),
                                  source |-> "web_scraping"]))
        ELSE Goto(ScrapeReturned(c, page), "llm")

\* lines 165-224: the model answered, or the call raised
ContentAnswered(c, answer) ==
    LET v == validate_and_score_job_content(answer.text)
    IN  IF answer.kind = "error"
            THEN Finish(c, Raised(CompleteFailure(c, ModelCallFailed)))
        ELSE IF ~v.is_valid
            THEN Finish(c, Raised(CompleteFailure(c,
                     Cause("IA nao conseguiu extrair conteudo valido da URL", v.score, v.reasons))))
        ELSE Finish(c, Returned([content |-> answer.text, title |-> S_Empty,
                                 company |-> S_Empty, validation |-> Accepted(v),
                                 source |-> "llm_fallback"]))

(***************************************************************************)
(* ExtractionAgent.extract_job_title_and_company                           *)
(***************************************************************************)
\* lines 247-254 and web_scraper.py:53-59: the content check, then the scrape when
\* a URL is given, whose own URL check raises into the agent's except clause
DetailsBegin(a, c) ==
    IF c.args.job_content < 100
        THEN Finish(c, Raised(ValueError("Conteudo da vaga muito curto ou vazio", NoCause)))
    ELSE IF c.args.job_url.given /\ ScrapingOn(a)
        THEN IF UrlInvalid(c.args.job_url) THEN ScrapeRaised(c) ELSE StartScrape(c)
    ELSE Goto(c, "llm")

\* variant: a scraped pair returned as soon as both fields are present
DetailsScrapedUnvalidated(c, page) ==
    LET title == Strip(page.title)
        company == Strip(page.company)
        v == validate_and_score_job_details(title, company)
    IN  IF page.title # <<>> /\ page.company # <<>>
            THEN Finish(ScrapeReturned(c, page),
                        Returned([job_title |-> title, company |-> company,
                                  validation |-> Accepted(v), source |-> "web_scraping"]))
        ELSE Goto(ScrapeReturned(c, page), "llm")

\* lines 254-296: scrape_job_posting returned scraped_data
DetailsScraped(c, page) ==
    LET title == Strip(page.title)
        company == Strip(page.company)
        v == validate_and_score_job_details(title, company)
    IN  IF page.title # <<>> /\ page.company # <<>> /\ v.is_valid
            THEN Finish(ScrapeReturned(c, page),
                        Returned([job_title |-> title, company |-> company,
                                  validation |-> Accepted(v), source |-> "web_scraping"]))
        ELSE Goto(ScrapeReturned(c, page), "llm")

DictGet(d, key, default) == IF key \in DOMAIN d THEN d[key] ELSE default

\* variant: the tag of the scraping branch copied into the model branch
DetailsModelSourceCopied(a, c) ==
    IF c.args.job_url.given /\ a.use_web_scraping THEN "web_scraping" ELSE "llm"

\* line 355
DetailsModelSource(a, c) ==
    IF c.args.job_url.given /\ a.use_web_scraping THEN "llm_fallback" ELSE "llm"

\* lines 327-334: a dict is read as it is, a string goes through json.loads,
\* anything else counts as {}
AnswerDict(answer) ==
    IF answer.kind \in {"dict", "string"} THEN answer.dict ELSE Dict_Empty

AnswerTitle(answer) ==
    Strip(DictGet(AnswerDict(answer), "jobTitle",
                  DictGet(AnswerDict(answer), "job_title", S_Empty)))

AnswerCompany(answer) == Strip(DictGet(AnswerDict(answer), "company", S_Empty))

\* lines 324-384: the chain answered, or raised; a string answer with no
\* dictionary in it is one json.loads rejects
DetailsAnswered(a, c, answer) ==
    LET title == AnswerTitle(answer)
        company == AnswerCompany(answer)
        v == validate_and_score_job_details(title, company)
    IN  IF answer.kind = "error"
            THEN Finish(c, Raised(ValueError("Falha critica na extracao de titulo/empresa",
                                             ModelCallFailed)))
        ELSE IF answer.kind = "string" /\ answer.dict = Dict_Empty
            THEN Finish(c, Raised(ValueError("IA retornou JSON invalido", Cause("JSONDecodeError", 0, <<>>))))
        ELSE IF ~v.is_valid
            THEN Finish(c, Raised(ValueError("Falha critica na extracao de titulo/empresa",
                                             Cause("IA nao conseguiu extrair dados validos", v.score, v.reasons))))
        ELSE Finish(c, Returned([job_title |-> title, company |-> company,
                                 validation |-> Accepted(v),
                                 source |-> DetailsModelSource(a, c)]))

(***************************************************************************)
(* GenerationAgent.generate_career_materials                               *)
(***************************************************************************)
\* variant: no check of job_description
GenerateBeginSkipsDescription(c) ==
    IF c.args.cv < 50
        THEN Finish(c, Raised(ValueError("CV muito curto ou vazio", NoCause)))
    ELSE IF c.args.job_title = <<>> \/ c.args.company = <<>>
        THEN Finish(c, Raised(ValueError("Titulo da vaga e empresa sao obrigatorios", NoCause)))
    ELSE Goto(c, "llm")

\* lines 113-134: input validation
GenerateBegin(c) ==
    IF c.args.cv < 50
        THEN Finish(c, Raised(ValueError("CV muito curto ou vazio", NoCause)))
    ELSE IF c.args.job_title = <<>> \/ c.args.company = <<>>
        THEN Finish(c, Raised(ValueError("Titulo da vaga e empresa sao obrigatorios", NoCause)))
    ELSE IF c.args.job_description < 100
        THEN Finish(c, Raised(ValueError("Descricao da vaga muito curta ou vazia", NoCause)))
    ELSE Goto(c, "llm")

\* lines 136-172: the chain answered, or raised
GenerateAnswered(c, answer) ==
    IF answer.kind = "error"
        THEN Finish(c, Raised(ValueError("Falha ao gerar materiais", ModelCallFailed)))
    ELSE Finish(c, Returned([materials |-> "parsed", compatibility |-> "computed"]))

(***************************************************************************)
(* WebScraper.scrape_job_posting, one await at a time                      *)
(***************************************************************************)
\* web_scraper.py:102-105
proxies == <<"api.allorigins.win", "corsproxy.io">>

\* one request and what came back: a parsed page (with the length of its
\* fullText), an answer of the model, or the kind of exception
Logged(c, req, r) ==
    [c EXCEPT !.log = Append(@, [req |-> req, got |-> r.kind,
                                 len |-> IF r.kind = "page" THEN r.page.fullText.len ELSE 0])]

\* scrape_job_posting returned `page` to the agent method that awaited it
Scraped(c, page) ==
    IF c.op = "content" THEN ContentScraped(c, page) ELSE DetailsScraped(c, page)

\* line 114
ProxyResultAccepted(r) == r.kind = "page" /\ r.page.fullText.len > 200

\* variant: a failed direct fetch ends the scrape, no proxy is tried
AfterDirectSkipsProxies(c, r) ==
    IF r.kind = "page" THEN Scraped(c, r.page) ELSE ScrapeRaised(c)

\* variant: the direct page held to the 200-character test of the proxies
AfterDirectChecksLength(c, r) ==
    IF ProxyResultAccepted(r) THEN Scraped(c, r.page)
    ELSE [c EXCEPT !.pc = "proxy", !.proxy = 1]

\* lines 62-68 and 88-98: a parsed page is returned, any exception moves on
AfterDirect(c, r) ==
    IF r.kind = "page" THEN Scraped(c, r.page)
    ELSE [c EXCEPT !.pc = "proxy", !.proxy = 1]

\* lines 71-86 and 107-119: one turn of the loop over proxies
AfterProxy(c, r) ==
    IF ProxyResultAccepted(r) THEN Scraped(c, r.page)
    ELSE IF c.proxy < Len(proxies) THEN [c EXCEPT !.proxy = @ + 1]
    ELSE ScrapeRaised(c)

(***************************************************************************)
(* Spec: one invocation on one agent                                       *)
(***************************************************************************)
\* ExtractionAgent.__init__: web_scraper = WebScraper() if use_web_scraping else None
ExtractionAgent(use_web_scraping) ==
    [use_web_scraping |-> use_web_scraping, web_scraper |-> use_web_scraping]

Init ==
    /\ content = TextEmpty
    /\ validation = NoValidation
    /\ details = NoDetails /\ texts = NoTexts /\ insights = NoInsights
    /\ agent \in {ExtractionAgent(b) : b \in BOOLEAN}
    /\ call \in {NewCall("content", a) : a \in ContentArgs}
            \cup {NewCall("details", a) : a \in DetailsArgs}
            \cup {NewCall("generate", a) : a \in GenerateArgs}

\* the synchronous head of the method, up to its first await or its raise
Begin ==
    /\ call.pc = "start"
    /\ call' = CASE call.op = "content" -> ContentBegin(agent, call)
                 [] call.op = "details" -> DetailsBegin(agent, call)
                 [] call.op = "generate" -> GenerateBegin(call)
    /\ UNCHANGED <<content, validation, details, texts, insights, agent>>

\* await self._try_direct_scrape(url)
TryDirectScrape ==
    /\ call.pc = "direct"
    /\ \E r \in HttpOutcomes : call' = AfterDirect(Logged(call, "direct", r), r)
    /\ UNCHANGED <<content, validation, details, texts, insights, agent>>

\* await self.client.get(proxy_url) inside _try_cors_proxy_scrape
TryCorsProxyScrape ==
    /\ call.pc = "proxy"
    /\ \E r \in HttpOutcomes :
           call' = AfterProxy(Logged(call, proxies[call.proxy], r), r)
    /\ UNCHANGED <<content, validation, details, texts, insights, agent>>

Answers(op) ==
    CASE op = "content" -> ContentAnswers
      [] op = "details" -> DetailsAnswers
      [] op = "generate" -> GenerationAnswers

Answered(a, c, answer) ==
    CASE c.op = "content" -> ContentAnswered(c, answer)
      [] c.op = "details" -> DetailsAnswered(a, c, answer)
      [] c.op = "generate" -> GenerateAnswered(c, answer)

\* await llm.ainvoke(...) / await chain.ainvoke(...)
InvokeModel ==
    /\ call.pc = "llm"
    /\ \E answer \in Answers(call.op) :
           call' = Answered(agent,
                            [Logged(call, "model", answer) EXCEPT !.answer = answer],
                            answer)
    /\ UNCHANGED <<content, validation, details, texts, insights, agent>>

Next == Begin \/ TryDirectScrape \/ TryCorsProxyScrape \/ InvokeModel

Spec == Init /\ [][Next]_vars

(***************************************************************************)
(* Properties of one invocation (Spec)                                     *)
(***************************************************************************)
Range(seq) == {seq[i] : i \in 1..Len(seq)}
Requests == [i \in 1..Len(call.log) |-> call.log[i].req]
ModelCalled == "model" \in Range(Requests)
IsFetch(e) == e.req # "model"
Fetches == SelectSeq(call.log, IsFetch)
ReturnedValue == call.result.status = "returned"
RaisedValueError == call.result.status = "raised" /\ call.result.error.type = "ValueError"
ContentScore(text) == validate_and_score_job_content(text).score

\* C1: a result of extract_job_content_from_url carries is_valid = true and the
\* Content Validator's score of the returned content, which is at least 30; a
\* model answer scoring below 30 ends the call with ValueError
ContentResultIsValidated ==
    call.op = "content" =>
        /\ ReturnedValue =>
               /\ call.result.value.validation.is_valid = TRUE
               /\ call.result.value.validation.score >= 30
               /\ call.result.value.validation.score = ContentScore(call.result.value.content)
        /\ (call.pc = "done" /\ call.answer.kind = "text" /\ ContentScore(call.answer.text) < 30)
               => RaisedValueError

\* C1 witness: a scraped page scoring below 30 was set aside and the model's
\* text returned
LowScoreScrapeReplacedByModel ==
    /\ call.op = "content" /\ ReturnedValue
    /\ call.scrape = "returned"
    /\ call.scraped.fullText.len > 0
    /\ ContentScore(call.scraped.fullText) < 30
    /\ call.result.value.content = call.answer.text

FetchFailureNeverSurfaces ==
    (call.op = "content" /\ ~UrlInvalid(call.args.job_url)) =>
        /\ (\E i \in 1..Len(call.log) : call.log[i].got \in FetchFailures)
               => call.pc \in {"proxy", "llm", "done"}
        /\ call.pc = "done" =>
               /\ call.result.status \in {"returned", "raised"}
               /\ call.result.status = "raised" <=>
                      /\ ModelCalled
                      /\ \/ call.answer.kind = "error"
                         \/ ContentScore(call.answer.text) < 30
               /\ call.result.status = "raised" =>
                      /\ RaisedValueError
                      /\ call.result.error.msg = "Falha completa ao extrair conteudo da URL"

\* C3 witness: the direct fetch and both proxies failed, each in another way,
\* and the call returned the model's text
AllFetchesFailedModelReturned ==
    /\ call.op = "content" /\ ReturnedValue
    /\ Len(call.log) = 4
    /\ call.log[1].got = "timeout"
    /\ call.log[2].got = "status_error"
    /\ call.log[3].got = "parse_error"
    /\ call.result.value.source = "llm_fallback"

InvalidInput ==
    CASE call.op = "content" -> ~call.args.job_url.scheme \/ ~call.args.job_url.netloc
      [] call.op = "details" -> call.args.job_content < 100
      [] call.op = "generate" ->
            \/ call.args.cv < 50
            \/ call.args.job_title = <<>>
            \/ call.args.company = <<>>
            \/ call.args.job_description < 100

\* C4: invalid input ends the call with ValueError before any fetch or model
\* call is issued
InvalidInputRejectedFirst ==
    (InvalidInput /\ call.pc # "start") =>
        /\ call.pc = "done"
        /\ RaisedValueError
        /\ call.log = <<>>
        /\ call.scrape = "not called"

\* C4 witness: generate_career_materials rejected a 99-character job description
\* that came with a good CV, title and company
ShortDescriptionRejected ==
    /\ call.op = "generate" /\ call.pc = "done"
    /\ call.args.cv >= 50 /\ call.args.job_title # <<>> /\ call.args.company # <<>>
    /\ call.args.job_description = 99
    /\ RaisedValueError /\ call.log = <<>>

DetailsValid(title, company) == validate_and_score_job_details(title, company).is_valid

ScrapeGaveNoValidPair ==
    \/ call.scrape \in {"not called", "raised"}
    \/ /\ call.scrape = "returned"
       /\ \/ call.scraped.title = <<>>
          \/ call.scraped.company = <<>>
          \/ ~DetailsValid(Strip(call.scraped.title), Strip(call.scraped.company))

\* C5: a pair returned by extract_job_title_and_company passes the Details
\* Validator with score 100; the model is called whenever the scrape gave no
\* valid pair; a model pair failing validation ends the call with ValueError
DetailsResultIsValidated ==
    call.op = "details" =>
        /\ ReturnedValue =>
               /\ DetailsValid(call.result.value.job_title, call.result.value.company)
               /\ validate_and_score_job_details(call.result.value.job_title,
                                                 call.result.value.company).score = 100
               /\ call.result.value.validation.is_valid = TRUE
               /\ call.result.value.validation.score = 100
        /\ (call.pc = "done" /\ call.args.job_content >= 100 /\ ScrapeGaveNoValidPair)
               => ModelCalled
        /\ (call.pc = "done" /\ ModelCalled /\ call.answer.kind # "error"
                /\ ~DetailsValid(AnswerTitle(call.answer), AnswerCompany(call.answer)))
               => RaisedValueError

\* C5 witness: the scrape found a title and a company that failed validation and
\* the model's pair was returned
InvalidScrapedPairReplacedByModel ==
    /\ call.op = "details" /\ ReturnedValue
    /\ call.scrape = "returned"
    /\ call.scraped.title # <<>> /\ call.scraped.company # <<>>
    /\ ~DetailsValid(call.scraped.title, call.scraped.company)
    /\ call.result.value.job_title = AnswerTitle(call.answer)

ModelTags == {"llm_fallback", "llm"}

ReturnedData ==
    IF call.op = "content" THEN <<call.result.value.content>>
    ELSE <<call.result.value.job_title, call.result.value.company>>

ScrapedData ==
    IF call.op = "content" THEN <<call.scraped.fullText>>
    ELSE <<Strip(call.scraped.title), Strip(call.scraped.company)>>

AnsweredData ==
    IF call.op = "content" THEN <<call.answer.text>>
    ELSE <<AnswerTitle(call.answer), AnswerCompany(call.answer)>>

\* C6: an accepted extraction result is tagged web_scraping exactly when no model
\* call was made and its data are the scraper's, and llm_fallback or llm exactly
\* when its data are the model's answer
SourceNamesProducer ==
    (call.op \in {"content", "details"} /\ ReturnedValue) =>
        /\ call.result.value.source \in {"web_scraping"} \cup ModelTags
        /\ call.result.value.source = "web_scraping" <=> ~ModelCalled
        /\ call.result.value.source = "web_scraping" =>
               call.scrape = "returned" /\ ReturnedData = ScrapedData
        /\ call.result.value.source \in ModelTags =>
               call.answer.kind # "none" /\ ReturnedData = AnsweredData

\* C6 witness: content accepted from the second proxy, tagged web_scraping
SecondProxyContentTagged ==
    /\ call.op = "content" /\ ReturnedValue
    /\ Len(call.log) = 3
    /\ call.log[3].req = proxies[2]
    /\ call.result.value.source = "web_scraping"

\* C7: a failure of extract_job_content_from_url after the URL check is the
\* aggregated ValueError, which lists a strategy exactly when it was attempted
\* in this run and suggests next actions
FailureListsAttemptedStrategies ==
    (call.op = "content" /\ call.result.status = "raised" /\ ~UrlInvalid(call.args.job_url)) =>
        /\ RaisedValueError
        /\ call.result.error.actions # <<>>
        /\ "Web scraping direto" \in Range(call.result.error.attempts)
               <=> call.scrape # "not called"
        /\ "Extracao via IA" \in Range(call.result.error.attempts) <=> ModelCalled

FetchOrder == <<"direct">> \o proxies

\* C8: the fetches of one scrape_job_posting call are a prefix of direct, first
\* proxy, second proxy; none follows a parsed direct page, and the second proxy
\* does not follow a first-proxy page with more than 200 characters of text
FetchesInFixedOrder ==
    /\ Len(Fetches) <= Len(FetchOrder)
    /\ \A i \in 1..Len(Fetches) : Fetches[i].req = FetchOrder[i]
    /\ (Len(Fetches) >= 1 /\ Fetches[1].got = "page") => Len(Fetches) = 1
    /\ (Len(Fetches) >= 2 /\ Fetches[2].got = "page" /\ Fetches[2].len > 200)
           => Len(Fetches) = 2

\* C8 witness: the second proxy was contacted after the first returned a page
\* with at most 200 characters of text
SecondProxyAfterShortPage ==
    /\ Len(Fetches) = 3
    /\ Fetches[2].got = "page" /\ Fetches[2].len \in 1..200

\* C30: a result tagged llm_fallback comes from a call whose scrape was
\* attempted and not accepted, and a model result of a call that attempted no
\* scrape is tagged llm, in both extraction operations
FallbackTagOnlyAfterScrape ==
    (call.op \in {"content", "details"} /\ ReturnedValue) =>
        /\ call.result.value.source = "llm_fallback" => call.scrape # "not called"
        /\ (ModelCalled /\ call.scrape = "not called") => call.result.value.source = "llm"


(***************************************************************************)
(* SpecDetails: validate_and_score_job_details on one (title, company)     *)
(***************************************************************************)
Repeat(ch, n) == [i \in 1..n |-> ch]

S_Blank == <<" ", " ">>
S_NotFound == <<"N","o","t"," ","F","o","u","n","d">>
S_NDotADot == <<"n",".","a",".">>
S_Devs == <<"D","e","v","s">>
S_PaddedDevs == <<" ">> \o S_Devs \o <<" ">>
S_Coder == <<"C","o","d","e","r">>
S_CompanyXYZ == <<"C","o","m","p","a","n","y"," ","X","Y","Z">>
S_CompanhiaABC == <<"C","o","m","p","a","n","h","i","a"," ","A","B","C">>
S_CompanyBang == <<"C","O","M","P","A","N","Y","!">>
S_X == <<"X">>
S_PaddedX == <<" ", "X", " ">>
S_XY == <<"X", "Y">>
S_Null == <<"n","u","l","l">>
S_Hundred == Repeat("a", 100)
S_HundredOne == Repeat("a", 101)
S_PaddedHundred == <<" ">> \o S_Hundred \o <<" ">>

JobTitles ==
    { S_Empty, S_Blank, S_NA, S_NotFound, S_NDotADot, S_Dev, S_Devs, S_PaddedDevs,
      S_Coder, S_DataEngineer, S_PaddedDataEngineer, S_CompanyXYZ, S_CompanhiaABC,
      S_Hundred, S_HundredOne, S_PaddedHundred }

Companies ==
    { S_Empty, S_Blank, S_NA, S_Null, S_Company, S_CompanyBang, S_CompanyXYZ,
      S_CompanhiaABC, S_X, S_PaddedX, S_XY, S_Acme, S_PaddedAcme,
      S_Hundred, S_HundredOne, S_PaddedHundred }

InitDetails ==
    /\ details \in [job_title : JobTitles, company : Companies]
    /\ validation = NoValidation
    /\ content = TextEmpty /\ texts = NoTexts /\ insights = NoInsights
    /\ agent = [use_web_scraping |-> FALSE, web_scraper |-> FALSE]
    /\ call = [pc |-> "none"]

ValidateDetails ==
    /\ validation = NoValidation
    /\ validation' = validate_and_score_job_details(details.job_title, details.company)
    /\ UNCHANGED <<content, details, texts, insights, agent, call>>

NextDetails == ValidateDetails

SpecDetails == InitDetails /\ [][NextDetails]_vars

Validated == validation # NoValidation

Trimmed(value) == Strip(value)

IsEmpty(value) == value = <<>> \/ Len(Trimmed(value)) = 0

NormalizesToGeneric(value) == _normalize_generic_term(value) \in normalized_generics

\* C13: is_valid is true exactly when both fields are non-empty, neither
\* normalizes to a blacklisted term, the trimmed title has 5 to 100 characters
\* and the trimmed company 2 to 100; the score is then 100, and otherwise 0 or 50
DetailsValidExactlyWhenBothPass ==
    Validated =>
        /\ validation.is_valid <=>
               /\ ~IsEmpty(details.job_title) /\ ~IsEmpty(details.company)
               /\ ~NormalizesToGeneric(details.job_title)
               /\ ~NormalizesToGeneric(details.company)
               /\ Len(Trimmed(details.job_title)) \in 5..100
               /\ Len(Trimmed(details.company)) \in 2..100
        /\ validation.is_valid => validation.score = 100
        /\ ~validation.is_valid => validation.score \in {0, 50}

\* C13 witness: a title of 4 characters with a good company scored 50 and
\* was not validated
FourCharTitleGoodCompanyNotValid ==
    /\ Validated
    /\ details.job_title = S_Devs /\ details.company = S_Acme
    /\ validation.score = 50 /\ ~validation.is_valid

\* the normalized value has a blacklisted term as a proper part
MerelyContainsGeneric(value) ==
    LET normalized == _normalize_generic_term(value)
    IN  /\ normalized \notin normalized_generics
        /\ \E term \in normalized_generics : Contains(normalized, term)

\* C14: a field is rejected as generic only when its normalized form equals a
\* normalized blacklist entry; a value that merely contains a blacklisted term
\* is not rejected as generic
GenericOnlyByEquality ==
    Validated =>
        /\ HasReason(validation, "Titulo generico/invalido") =>
               NormalizesToGeneric(details.job_title)
        /\ HasReason(validation, "Empresa generica/invalida") =>
               NormalizesToGeneric(details.company)
        /\ MerelyContainsGeneric(details.job_title) =>
               ~HasReason(validation, "Titulo generico/invalido")
        /\ MerelyContainsGeneric(details.company) =>
               ~HasReason(validation, "Empresa generica/invalida")

\* C14 witness: the company "Company XYZ", which contains the blacklisted
\* "company", was validated with a good title
CompanyXYZAccepted ==
    /\ Validated
    /\ details.job_title = S_DataEngineer /\ details.company = S_CompanyXYZ
    /\ MerelyContainsGeneric(details.company)
    /\ validation.is_valid

\* C15: an empty or generic field gives is_valid = false, score 0 and exactly
\* one reason naming that field; the title is reported whatever the company
\* is, and a rejected company leaves nothing of the title's points and reasons
RejectionNamesOffendingField ==
    Validated =>
        LET title == details.job_title
            company == details.company
            rejected(reason) == validation = ValidationResult(FALSE, 0, <<reason>>)
        IN  /\ IsEmpty(title) => rejected("Titulo da vaga ausente")
            /\ (~IsEmpty(title) /\ NormalizesToGeneric(title)) =>
                   rejected("Titulo generico/invalido")
            /\ (~IsEmpty(title) /\ ~NormalizesToGeneric(title) /\ IsEmpty(company)) =>
                   rejected("Nome da empresa ausente")
            /\ (~IsEmpty(title) /\ ~NormalizesToGeneric(title)
                  /\ ~IsEmpty(company) /\ NormalizesToGeneric(company)) =>
                   rejected("Empresa generica/invalida")

\* C15 witness: a title worth 50 points came with a generic company, and the
\* result holds score 0 and the company's reason only
GenericCompanyDiscardsTitlePoints ==
    /\ Validated
    /\ TitlePoints(Strip(Lower(details.job_title))) = 50
    /\ ~NormalizesToGeneric(details.job_title)
    /\ details.company = S_CompanyBang
    /\ validation = ValidationResult(FALSE, 0, <<"Empresa generica/invalida">>)

(***************************************************************************)
(* Compatibility Scorer                                                    *)
(*                                                                         *)
(* A text is the sequence of its words, each a maximal run of the          *)
(* characters the token pattern [a-z0-9+#.] accepts once the text is in    *)
(* NFKD-ASCII lower case.  coverage_ratio is held in thousandths.          *)
(***************************************************************************)
_STOPWORDS ==
    {
      "para", "com", "that", "with", "from", "sobre", "onde", "quando",
      "como", "have", "this", "your", "will", "de", "das", "dos", "the",
      "and", "por", "uma", "mais", "than", "then", "elas", "eles", "possui",
      "possuir", "atividades", "responsabilidades", "requirements",
      "requisitos", "qualificacoes" }

\* words of fewer than 3 characters, which the pattern {3,} does not match
ShortWords == {"go", "c#", "em"}

\* words written with capitals or accents, with their NFKD-ASCII lower case
Folded ==
    [Python |-> "python", AWS |-> "aws", Requisitos |-> "requisitos",
     Qualificacoes |-> "qualificacoes"]

\* _normalize_text(value).lower(), word by word
_normalize_text(value) ==
    [i \in 1..Len(value) |-> IF value[i] \in DOMAIN Folded THEN Folded[value[i]] ELSE value[i]]

_extract_tokens(value) ==
    LET IsToken(w) == w \notin ShortWords
        NotStopword(w) == w \notin _STOPWORDS
    IN  SelectSeq(SelectSeq(_normalize_text(value), IsToken), NotStopword)

\* Counter(tokens): how often each token occurs
Counter(tokens) ==
    [t \in {tokens[i] : i \in 1..Len(tokens)} |->
        Cardinality({i \in 1..Len(tokens) : tokens[i] = t})]

FirstOccurrence(tokens, t) ==
    CHOOSE i \in 1..Len(tokens) : tokens[i] = t /\ \A j \in 1..(i - 1) : tokens[j] # t

\* list(dict.fromkeys(tokens)): the distinct tokens in order of first occurrence
Distinct(tokens) ==
    LET IsFirst(i) == \A j \in 1..(i - 1) : tokens[j] # tokens[i]
        firsts == {i \in 1..Len(tokens) : IsFirst(i)}
        nth(k) == CHOOSE i \in firsts : Cardinality({j \in firsts : j < i}) = k - 1
    IN  [k \in 1..Cardinality(firsts) |-> tokens[nth(k)]]

\* (Counter(tokens), list(dict.fromkeys(tokens))); the Counter keeps its keys
\* in the order of the second component
_extract_keywords(value) ==
    LET tokens == _extract_tokens(value)
    IN  [counter |-> Counter(tokens), tokens |-> Distinct(tokens)]

\* variant: the keys in insertion order, not sorted by count
most_common_unsorted(counter, keys) == keys

\* Counter.most_common(): the keys by descending count; the sort is stable, so
\* equal counts stay in insertion order
most_common(counter, keys) ==
    LET Precedes(i, j) ==
            \/ counter[keys[i]] > counter[keys[j]]
            \/ counter[keys[i]] = counter[keys[j]] /\ i < j
        Rank(j) == 1 + Cardinality({i \in 1..Len(keys) : Precedes(i, j)})
    IN  [r \in 1..Len(keys) |-> keys[CHOOSE j \in 1..Len(keys) : Rank(j) = r]]

\* seq[:n]
Take(seq, n) == SubSeq(seq, 1, Min(n, Len(seq)))

\* variant: every posting keyword is compared
ranked_job_keywords_all(ranked) == ranked

\* [kw for kw, _ in job_counter.most_common(30)]
ranked_job_keywords(ranked) == Take(ranked, 30)

RECURSIVE SumValues(_)
\* sum(job_counter.values())
SumValues(counter) ==
    IF DOMAIN counter = {} THEN 0
    ELSE LET k == CHOOSE k \in DOMAIN counter : TRUE
         IN  counter[k] + SumValues([t \in DOMAIN counter \ {k} |-> counter[t]])

\* round(a / b) for a >= 0, b > 0: Python rounds a tie to the even neighbour
Round(a, b) ==
    LET q == a \div b
        r == a % b
    IN  IF 2 * r < b THEN q
        ELSE IF 2 * r > b THEN q + 1
        ELSE IF q % 2 = 0 THEN q ELSE q + 1

CompatibilityInsights(score, label, strengths, gaps, coverage_ratio) ==
    [score |-> score, label |-> label, strengths |-> strengths, gaps |-> gaps,
     coverage_ratio |-> coverage_ratio]

\* variant: both conditions needed for the sentinel
InsufficientDataBoth(job_keywords, occurrences) ==
    Cardinality(job_keywords) < 5 /\ occurrences < 10

\* len(job_keywords) < 5 or sum(job_counter.values()) < 10
InsufficientData(job_keywords, occurrences) ==
    Cardinality(job_keywords) < 5 \/ occurrences < 10

\* variant: no floor under the score
FinalScoreNoFloor(match_points, coverage_points) == match_points + coverage_points

\* variant: the floor of the score is 50
FinalScoreFloorFifty(match_points, coverage_points) == Max(50, match_points + coverage_points)

\* score = max(5, match_points + coverage_points)
FinalScore(match_points, coverage_points) == Max(5, match_points + coverage_points)

Label(score) ==
    IF score >= 75 THEN "Alta compatibilidade"
    ELSE IF score >= 45 THEN "Compatibilidade moderada"
    ELSE "Compatibilidade baixa"

calculate_compatibility(cv, job_description) ==
    LET job == _extract_keywords(job_description)
        resume == _extract_keywords(cv)
        job_counter == job.counter
        ranked == most_common(job_counter, job.tokens)
        ranked_top == ranked_job_keywords(ranked)
        job_keywords == {ranked_top[i] : i \in 1..Len(ranked_top)}
        cv_keywords == {resume.tokens[i] : i \in 1..Len(resume.tokens)}
        matched == job_keywords \cap cv_keywords
        missing == job_keywords \ cv_keywords
        denominator == Max(1, Cardinality(job_keywords))
        match_points == Min(60, Cardinality(matched) * 12)
        coverage_points == Min(40, Round(Cardinality(matched) * 40, denominator))
        score == FinalScore(match_points, coverage_points)
        IsMatched(kw) == kw \in matched
        IsMissing(kw) == kw \in missing
    IN  IF DOMAIN job_counter = {}
            THEN CompatibilityInsights(50, "Dados insuficientes", <<>>, <<>>, 0)
        ELSE IF InsufficientData(job_keywords, SumValues(job_counter))
            THEN CompatibilityInsights(50, "Dados insuficientes", <<>>, Take(ranked_top, 5), 0)
        ELSE CompatibilityInsights(score, Label(score),
                                   Take(SelectSeq(ranked, IsMatched), 5),
                                   Take(SelectSeq(ranked, IsMissing), 5),
                                   Round(Cardinality(matched) * 1000, denominator))

(***************************************************************************)
(* SpecCompatibility: calculate_compatibility on one (cv, posting) pair    *)
(***************************************************************************)
MaxDistinct == 6
MaxCount == 3

\* keywords a posting or a resume is written with
Vocabulary ==
    <<
       "python", "fastapi", "docker", "aws", "kubernetes", "sql", "redis",
       "git", "linux", "kafka", "spark", "airflow", "terraform", "ansible",
       "jenkins", "grafana", "react", "angular", "django", "flask", "pandas",
       "numpy", "scala", "java", "rust", "mongodb", "mysql", "oracle",
       "azure", "gcp", "graphql", "nginx" >>

RECURSIVE Blocks(_, _)
\* the text in which the i-th vocabulary word stands counts[i] times in a row,
\* from the d-th word down to the first
Blocks(counts, d) ==
    IF d = 0 THEN <<>> ELSE Blocks(counts, d - 1) \o Repeat(Vocabulary[d], counts[d])

\* how often each vocabulary word stands in a posting: the first three
\* a, b and c times, every other one `rest` times
CountsOf(a, b, c, rest) ==
    [i \in 1..Len(Vocabulary) |-> CASE i = 1 -> a [] i = 2 -> b [] i = 3 -> c [] OTHER -> rest]

\* postings of up to MaxDistinct keywords, each up to MaxCount times, under a
\* heading that is a stopword
SmallPostings ==
    {<<"Requisitos">> \o Blocks(CountsOf(a, b, c, rest), d) :
        a \in 1..MaxCount, b \in 1..MaxCount, c \in 1..MaxCount,
        rest \in 1..MaxCount, d \in 0..MaxDistinct}

RECURSIVE Words(_, _)
\* the words of Vocabulary[1..d] that are in the set, in vocabulary order,
\* "python" written with a capital
Words(set, d) ==
    IF d = 0 THEN <<>>
    ELSE Words(set, d - 1)
         \o (IF d \notin set THEN <<>>
             ELSE IF Vocabulary[d] = "python" THEN <<"Python">> ELSE <<Vocabulary[d]>>)

\* which of the first MaxDistinct keywords a resume holds: the first j, the
\* last j, one alone, or all but one
ResumeChoices ==
    {1..j : j \in 0..MaxDistinct} \cup {j..MaxDistinct : j \in 1..MaxDistinct}
    \cup {{j} : j \in 1..MaxDistinct} \cup {(1..MaxDistinct) \ {j} : j \in 1..MaxDistinct}

\* resumes: the chosen keywords after a stopword and a two-letter word
SmallResumes == {<<"com", "go">> \o Words(set, MaxDistinct) : set \in ResumeChoices}

\* postings of 16, 30, 31 and 32 keywords, once each, some with the last
\* keyword a second time at the end
LargePostings ==
    {Blocks([i \in 1..32 |-> 1], d) : d \in {16, 30, 31, 32}} \cup
    {Blocks([i \in 1..32 |-> 1], d) \o <<Vocabulary[d]>> : d \in {16, 30, 31, 32}}

LargeResumes ==
    {Words(1..j, 32) : j \in 0..32} \cup {Words({31, 32}, 32), Words({32}, 32), Words({16}, 32)}

\* postings of every size from 5 to 30 keywords, twice each
SizedPostings == {Blocks([i \in 1..32 |-> 2], d) : d \in 5..30}

\* resumes holding the first j keywords, up to the 5 that earn all match points
ShortResumes == {Words(1..j, 32) : j \in 0..5}

TextPairs ==
    {[job_description |-> j, cv_text |-> c] : j \in SmallPostings \cup {<<>>}, c \in SmallResumes \cup {<<>>}}
    \cup {[job_description |-> j, cv_text |-> c] : j \in LargePostings, c \in LargeResumes}
    \cup {[job_description |-> j, cv_text |-> c] : j \in SizedPostings, c \in ShortResumes}

InitCompatibility ==
    /\ texts \in TextPairs
    /\ insights = NoInsights
    /\ content = TextEmpty /\ validation = NoValidation /\ details = NoDetails
    /\ agent = [use_web_scraping |-> FALSE, web_scraper |-> FALSE]
    /\ call = [pc |-> "none"]

CalculateCompatibility ==
    /\ insights = NoInsights
    /\ insights' = calculate_compatibility(texts.cv_text, texts.job_description)
    /\ UNCHANGED <<content, validation, details, texts, agent, call>>

NextCompatibility == CalculateCompatibility

SpecCompatibility == InitCompatibility /\ [][NextCompatibility]_vars

Computed == insights # NoInsights

Sentinel == insights.label = "Dados insuficientes"

PostingTokens == _extract_tokens(texts.job_description)

ResumeKeywords ==
    LET tokens == _extract_tokens(texts.cv_text) IN {tokens[i] : i \in 1..Len(tokens)}

\* the posting's keywords in order of first occurrence, how often each occurs,
\* and how many keywords come before each in descending frequency, ties in
\* order of first occurrence
PostingRanking ==
    LET tokens == PostingTokens
        keys == Distinct(tokens) \o <<>>
        counts == [i \in 1..Len(keys) |->
                      Cardinality({j \in 1..Len(tokens) : tokens[j] = keys[i]})] \o <<>>
        before == [i \in 1..Len(keys) |->
                      Cardinality({j \in 1..Len(keys) :
                          \/ counts[j] > counts[i]
                          \/ counts[j] = counts[i] /\ j < i})] \o <<>>
    IN  [keys |-> keys, counts |-> counts, before |-> before, occurrences |-> Len(tokens)]

IndexOf(r, kw) == CHOOSE i \in 1..Len(r.keys) : r.keys[i] = kw

KeywordsOf(r) == {r.keys[i] : i \in 1..Len(r.keys)}

\* the posting's top keywords: the 30 first in that order
TopOf(r) == {r.keys[i] : i \in {j \in 1..Len(r.keys) : r.before[j] < 30}}

EnoughData(r) == Len(r.keys) >= 5 /\ r.occurrences >= 10

IsFirstFive(list, set, r) ==
    /\ Len(list) = Min(5, Cardinality(set))
    /\ \A i \in 1..Len(list) :
           /\ list[i] \in set
           /\ Cardinality({u \in set : r.before[IndexOf(r, u)] < r.before[IndexOf(r, list[i])]})
                = i - 1

\* C19: in a non-sentinel result strengths are top-30 posting keywords that
\* occur in the resume and gaps top-30 posting keywords that do not, the
\* lists are disjoint, and each is the first up to 5 such keywords in
\* descending posting frequency, ties in order of first occurrence
StrengthsAndGapsRanked ==
    (Computed /\ ~Sentinel) =>
        LET r == PostingRanking
            top == TopOf(r)
            resume == ResumeKeywords
        IN  /\ IsFirstFive(insights.strengths, top \cap resume, r)
            /\ IsFirstFive(insights.gaps, top \ resume, r)
            /\ \A i \in 1..Len(insights.strengths), j \in 1..Len(insights.gaps) :
                   insights.strengths[i] # insights.gaps[j]

\* C19 witness: of 6 matched keywords strengths keeps 5; a later but more
\* frequent keyword leads, and two equally frequent ones follow in order of
\* first occurrence
StrengthsByFrequencyThenOccurrence ==
    /\ Computed /\ ~Sentinel
    /\ Len(insights.strengths) = 5
    /\ LET r == PostingRanking
           at(i) == IndexOf(r, insights.strengths[i])
       IN  /\ Cardinality(TopOf(r) \cap ResumeKeywords) = 6
           /\ at(1) > at(2)
           /\ r.counts[at(2)] = r.counts[at(3)]

\* C28: the score is 50 exactly when the label is "Dados insuficientes"
FiftyIffInsufficientData ==
    Computed => (insights.score = 50 <=> insights.label = "Dados insuficientes")

\* C28 witness: 3 of a posting's 8 keywords are in the resume, and the score
\* computed is 51 under the label of a moderate match
ThreeOfEightScoresFiftyOne ==
    /\ Computed
    /\ Len(PostingRanking.keys) = 8 /\ EnoughData(PostingRanking)
    /\ Cardinality(ResumeKeywords) = 3
    /\ insights.score = 51 /\ insights.label = "Compatibilidade moderada"


(***************************************************************************)
(* SpecExecute: one call of BaseAgent.execute under the retry decorator    *)
(***************************************************************************)
\* BaseAgent.__init__
BaseAgent(model_name, max_retries, timeout_seconds) ==
    [model_name |-> model_name, max_retries |-> max_retries,
     timeout_seconds |-> timeout_seconds]

\* what an attempt (self._create_chain() and await chain.ainvoke(input_data))
\* can raise; ConnectionResetError is a subclass of ConnectionError,
\* CancelledError a BaseException
Exceptions ==
    {"ConnectionError", "ConnectionResetError", "TimeoutError", "ValueError",
     "RuntimeError", "CancelledError"}

Exception(type) ==
    [type |-> type, msg |-> "", attempts |-> <<>>, cause |-> NoCause, actions |-> <<>>]

ChainOutcomes ==
    {[kind |-> "result", type |-> "none"]} \cup {[kind |-> "raised", type |-> e] : e \in Exceptions}

\* variant: every exception is retried
retry_if_any_exception(type) == TRUE

\* retry=retry_if_exception_type((ConnectionError, TimeoutError)): isinstance
retry_if_exception_type(type) ==
    type \in {"ConnectionError", "ConnectionResetError", "TimeoutError"}

\* stop=stop_after_attempt(3)
stop_after_attempt(attempt_number) == attempt_number >= 3

\* wait=wait_exponential(multiplier=2, min=2, max=10), in seconds
wait_exponential(attempt_number) == Max(2, Min(10, 2 * 2^(attempt_number - 1)))

\* reraise=True: when the attempts are used up the last attempt's exception
\* is raised, not a RetryError around it
reraise == TRUE

NewExecute(input_data) ==
    [op |-> "execute", args |-> input_data, pc |-> "attempt", attempt_number |-> 1,
     wait |-> 0, log |-> <<>>, slept |-> <<>>, result |-> Pending]

\* one attempt has ended with outcome o: return its result, raise its
\* exception, or sleep before the next attempt
AfterAttempt(c, o) ==
    LET attempted == [c EXCEPT !.log = Append(@, o)]
    IN  IF o.kind = "result"
            THEN Finish(attempted, Returned([chain_result |-> c.args]))
        ELSE IF ~retry_if_exception_type(o.type)
            THEN Finish(attempted, Raised(Exception(o.type)))
        ELSE IF stop_after_attempt(c.attempt_number)
            THEN Finish(attempted,
                        Raised(Exception(IF reraise THEN o.type ELSE "RetryError")))
        ELSE [attempted EXCEPT !.pc = "sleep", !.wait = wait_exponential(c.attempt_number)]

InputData == {<<"cv", "job_description">>, <<>>}

MaxRetriesValues == {1, 2, 3, 5}

InitExecute ==
    /\ agent \in {BaseAgent("gemini-2.5-flash", k, 300) : k \in MaxRetriesValues}
    /\ call \in {NewExecute(d) : d \in InputData}
    /\ content = TextEmpty /\ validation = NoValidation
    /\ details = NoDetails /\ texts = NoTexts /\ insights = NoInsights

\* the body of execute: chain = self._create_chain(); await chain.ainvoke(input_data)
ExecuteAttempt ==
    /\ call.pc = "attempt"
    /\ \E o \in ChainOutcomes : call' = AfterAttempt(call, o)
    /\ UNCHANGED <<content, validation, details, texts, insights, agent>>

\* the wait between two attempts
ExecuteSleep ==
    /\ call.pc = "sleep"
    /\ call' = [call EXCEPT !.pc = "attempt", !.attempt_number = @ + 1,
                            !.slept = Append(@, call.wait)]
    /\ UNCHANGED <<content, validation, details, texts, insights, agent>>

NextExecute == ExecuteAttempt \/ ExecuteSleep

SpecExecute == InitExecute /\ [][NextExecute]_vars

\* ConnectionError, TimeoutError and their subclasses
ConnectivityErrors == {"ConnectionError", "ConnectionResetError", "TimeoutError"}

\* C20: one call invokes the chain at most 3 times, invokes it again only
\* after an attempt that raised ConnectionError or TimeoutError, and an attempt
\* that raises any other exception ends the call with that exception
ExecuteRetriesOnlyConnectivity ==
    /\ Len(call.log) <= 3
    /\ \A i \in 2..Len(call.log) :
           /\ call.log[i - 1].kind = "raised"
           /\ call.log[i - 1].type \in ConnectivityErrors
    /\ \A i \in 1..Len(call.log) :
           (call.log[i].kind = "raised" /\ call.log[i].type \notin ConnectivityErrors) =>
               /\ i = Len(call.log)
               /\ call.pc = "done"
               /\ call.result = Raised(Exception(call.log[i].type))

\* C20 witness: two attempts raised connectivity errors, the third a
\* ValueError, and the call ended with the ValueError
ThirdAttemptValueErrorEndsCall ==
    /\ Len(call.log) = 3
    /\ call.log[1].type = "TimeoutError" /\ call.log[2].type = "ConnectionError"
    /\ call.log[3].type = "ValueError"
    /\ call.slept = <<2, 4>>
    /\ call.result = Raised(Exception("ValueError"))

\* C21: when every attempt of a call failed with a retryable error, the call
\* raises RetryError to its caller
ExhaustedRaisesRetryError ==
    (/\ call.pc = "done"
     /\ \A i \in 1..Len(call.log) :
            call.log[i].kind = "raised" /\ call.log[i].type \in ConnectivityErrors) =>
        call.result = Raised(Exception("RetryError"))

\* C27: an agent built with max_retries = k never invokes its chain more than
\* k times in one call
AttemptsBoundedByMaxRetries == Len(call.log) <= agent.max_retries

(***************************************************************************)
(* Response Parser: GenerationAgent._parse_generated_content               *)
(***************************************************************************)
\* a response text is a sequence of pieces of text; "###" is one piece, so
\* that the end of one marker can be the beginning of another

sections ==
    [optimizedCv       |-> <<"###", " OPTIMIZED CV ", "###">>,
     coverLetter       |-> <<"###", " COVER LETTER ", "###">>,
     networkingMessage |-> <<"###", " NETWORKING MESSAGE ", "###">>,
     interviewTips     |-> <<"###", " INTERVIEW TIPS ", "###">>]

keys == <<"optimizedCv", "coverLetter", "networkingMessage", "interviewTips">>

\* str.find(sub, start): the lowest index (from 0) at or after start where sub
\* occurs, -1 when there is none
find(s, sub, start) ==
    LET hits == {i \in start..(Len(s) - Len(sub)) : SubSeq(s, i + 1, i + Len(sub)) = sub}
    IN  IF hits = {} THEN -1 ELSE CHOOSE i \in hits : \A j \in hits : i <= j

\* s[a:b] for a, b >= 0
Slice(s, a, b) == SubSeq(s, a + 1, Min(b, Len(s)))

\* f"Erro: Seção {start_marker} não encontrada"
Placeholder(start_marker) == <<"Erro: Secao ">> \o start_marker \o <<" nao encontrada">>

end_marker(i) == IF i + 1 <= Len(keys) THEN sections[keys[i + 1]] ELSE <<>>

\* variant: the end marker is searched from the beginning of the text
end_index_from_beginning(remaining_text, i, start_index) ==
    LET found == IF end_marker(i) # <<>>
                 THEN find(remaining_text, end_marker(i), 0)
                 ELSE Len(remaining_text)
    IN  IF found = -1 THEN Len(remaining_text) ELSE found

end_index(remaining_text, i, start_index) ==
    LET found == IF end_marker(i) # <<>>
                 THEN find(remaining_text, end_marker(i), start_index)
                 ELSE Len(remaining_text)
    IN  IF found = -1 THEN Len(remaining_text) ELSE found

\* variant: a section whose marker is missing is left empty
ParseSectionEmptyWhenMissing(remaining_text, i) ==
    LET start_marker == sections[keys[i]]
        start_index == find(remaining_text, start_marker, 0)
    IN  IF start_index = -1
        THEN <<>>
        ELSE Strip(Slice(remaining_text, start_index + Len(start_marker),
                         end_index(remaining_text, i, start_index)))

\* one turn of the loop over keys
ParseSection(remaining_text, i) ==
    LET start_marker == sections[keys[i]]
        start_index == find(remaining_text, start_marker, 0)
    IN  IF start_index = -1
        THEN Placeholder(start_marker)
        ELSE Strip(Slice(remaining_text, start_index + Len(start_marker),
                         end_index(remaining_text, i, start_index)))

_parse_generated_content(response_text) ==
    [key \in {keys[i] : i \in 1..Len(keys)} |->
        ParseSection(response_text, CHOOSE i \in 1..Len(keys) : keys[i] = key)]

(***************************************************************************)
(* SpecParse: one call of _parse_generated_content                         *)
(***************************************************************************)
MaxPieces == 4

\* each marker bare and followed by a line of text, a word, and the tail that
\* turns the end of a marker into the beginning of the cover letter marker
Pieces ==
    {sections[keys[i]] : i \in 1..Len(keys)}
        \cup {sections[keys[i]] \o <<"\n", "x", "\n">> : i \in 1..Len(keys)}
        \cup {<<"x">>, <<" COVER LETTER ", "###">>}

RECURSIVE Concat(_)
Concat(pieces) == IF pieces = <<>> THEN <<>> ELSE Head(pieces) \o Concat(Tail(pieces))

ResponseTexts ==
    {Concat(pieces) : pieces \in UNION {[1..n -> Pieces] : n \in 0..MaxPieces}}

NewParse(response_text) ==
    [op |-> "_parse_generated_content", args |-> response_text, pc |-> "parse",
     result |-> Pending]

InitParse ==
    /\ agent = BaseAgent("gemini-2.5-flash", 3, 300)
    /\ call \in {NewParse(t) : t \in ResponseTexts}
    /\ content = TextEmpty /\ validation = NoValidation
    /\ details = NoDetails /\ texts = NoTexts /\ insights = NoInsights

ParseGeneratedContent ==
    /\ call.pc = "parse"
    /\ call' = Finish(call, Returned(_parse_generated_content(call.args)))
    /\ UNCHANGED <<content, validation, details, texts, insights, agent>>

NextParse == ParseGeneratedContent

SpecParse == InitParse /\ [][NextParse]_vars

Parsed == call.pc = "done" /\ call.result.status = "returned"

MarkerPresent(i) == Contains(call.args, sections[keys[i]])

\* index from 0 of the first occurrence of the marker of section i
FirstMarker(i) ==
    CHOOSE a \in 0..Len(call.args) :
        /\ SubSeq(call.args, a + 1, a + 3) = sections[keys[i]]
        /\ \A b \in 0..(a - 1) : SubSeq(call.args, b + 1, b + 3) # sections[keys[i]]

Field(i) == call.result.value[keys[i]]

\* C22: every call returns the four fields; a field whose marker is absent
\* holds the placeholder naming that marker, and a field whose marker is
\* present holds stripped text that starts right after the first occurrence
\* of its marker
ParseReturnsFourFields ==
    (call.pc = "done") =>
        /\ call.result.status = "returned"
        /\ DOMAIN call.result.value =
               {"optimizedCv", "coverLetter", "networkingMessage", "interviewTips"}
        /\ \A i \in 1..4 :
               IF MarkerPresent(i)
               THEN /\ Field(i) # Placeholder(sections[keys[i]])
                    /\ \E e \in 0..Len(call.args) :
                           Field(i) = Strip(Slice(call.args, FirstMarker(i) + 3, e))
               ELSE Field(i) = Placeholder(sections[keys[i]])

\* C22 witness: the cover letter marker is absent and the sections before and
\* after it were extracted
MissingMarkerBetweenExtractedSections ==
    /\ Parsed
    /\ ~MarkerPresent(2) /\ Field(2) = Placeholder(sections.coverLetter)
    /\ MarkerPresent(1) /\ MarkerPresent(3)
    /\ Field(3) = <<"x">> /\ Len(Field(1)) > 0

\* C29 as stated: no extracted section text contains any of the four markers
NoMarkerInSectionText ==
    Parsed =>
        \A i \in 1..4 : MarkerPresent(i) =>
            \A j \in 1..4 : ~Contains(Field(i), sections[keys[j]])

\* C29: an extracted section text never contains the marker of the section
\* expected next; when that marker does not occur at or after the section's
\* own marker, or the section is the last one, the section runs to the end of
\* the text
NoNextMarkerInSectionText ==
    Parsed =>
        \A i \in 1..4 : MarkerPresent(i) =>
            /\ i < 4 => ~Contains(Field(i), sections[keys[i + 1]])
            /\ (i = 4 \/ ~Contains(Slice(call.args, FirstMarker(i), Len(call.args)),
                                   sections[keys[i + 1]])) =>
                   Field(i) = Strip(Slice(call.args, FirstMarker(i) + 3, Len(call.args)))

\* C29 witness: the cover letter marker is missing and the text returned for
\* the CV runs over the networking marker
SectionRunsOverLaterMarker ==
    /\ Parsed
    /\ MarkerPresent(1) /\ ~MarkerPresent(2) /\ MarkerPresent(3)
    /\ Contains(Field(1), sections.networkingMessage)

(***************************************************************************)
(* Structured data: WebScraper._extract_structured_data                    *)
(***************************************************************************)
\* what json.loads makes of an element of a JSON-LD block: an object with its
\* "@type" and the keys it has, or a value that is no object
JsonObject(type, fields) == [kind |-> "dict", type |-> type, fields |-> fields]

JsonString == [kind |-> "str"]

\* hiringOrganization as an object with a name, and as a plain string
OrgObject(name) == [kind |-> "dict", name |-> name]

OrgString(name) == [kind |-> "str", name |-> name]

Posting_Dev ==
    JsonObject("JobPosting",
               [title |-> "Dev", hiringOrganization |-> OrgObject("Acme"),
                description |-> "Build services"])

Posting_Engineer ==
    JsonObject("JobPosting",
               [name |-> "Engineer", hiringOrganization |-> OrgString("Globex"),
                description |-> "Run pipelines"])

Posting_Analyst == JsonObject("JobPosting", [title |-> "Analyst"])

Organization == JsonObject("Organization", [name |-> "Initech"])

JsonItems == {Posting_Dev, Posting_Engineer, Posting_Analyst, Organization, JsonString}

\* a script block: text json.loads rejects, one value, or an array of values
ScriptInvalid == [kind |-> "invalid", items |-> <<>>]

ScriptValue(item) == [kind |-> "value", items |-> <<item>>]

ScriptArray(items) == [kind |-> "array", items |-> items]

Scripts ==
    {ScriptInvalid} \cup {ScriptValue(i) : i \in JsonItems}
        \cup {ScriptArray(<<>>)} \cup {ScriptArray(<<i>>) : i \in JsonItems}
        \cup {ScriptArray(<<i, j>>) : i \in JsonItems, j \in JsonItems}

\* lines 186-192: the three keys read from a JobPosting item
FromPosting(item) ==
    LET title == DictGet(item.fields, "title", "")
        org == DictGet(item.fields, "hiringOrganization", OrgObject(""))
    IN  [title |-> IF title # "" THEN title ELSE DictGet(item.fields, "name", ""),
         company |-> org.name,
         description |-> DictGet(item.fields, "description", "")]

RECURSIVE ScanItems(_, _)
\* the loop over items: item.get on a value that is no object raises and the
\* block is given up; the first JobPosting is stored and ends the loop
ScanItems(items, result) ==
    IF items = <<>> THEN result
    ELSE IF Head(items).kind # "dict" THEN result
    ELSE IF Head(items).type = "JobPosting" THEN FromPosting(Head(items))
    ELSE ScanItems(Tail(items), result)

RECURSIVE ScanScripts(_, _)
\* the loop over script blocks
ScanScripts(json_ld_scripts, result) ==
    IF json_ld_scripts = <<>> THEN result
    ELSE ScanScripts(Tail(json_ld_scripts),
                     IF Head(json_ld_scripts).kind = "invalid" THEN result
                     ELSE ScanItems(Head(json_ld_scripts).items, result))

_extract_structured_data(json_ld_scripts) == ScanScripts(json_ld_scripts, Dict_Empty)

(***************************************************************************)
(* SpecStructured: one call of _extract_structured_data                    *)
(***************************************************************************)
MaxScripts == 2

ScriptLists == UNION {[1..n -> Scripts] : n \in 0..MaxScripts}

NewStructured(json_ld_scripts) ==
    [op |-> "_extract_structured_data", args |-> json_ld_scripts, pc |-> "scan",
     result |-> Pending]

InitStructured ==
    /\ agent = [use_web_scraping |-> TRUE, web_scraper |-> TRUE]
    /\ call \in {NewStructured(l) : l \in ScriptLists}
    /\ content = TextEmpty /\ validation = NoValidation
    /\ details = NoDetails /\ texts = NoTexts /\ insights = NoInsights

ExtractStructuredData ==
    /\ call.pc = "scan"
    /\ call' = Finish(call, Returned(_extract_structured_data(call.args)))
    /\ UNCHANGED <<content, validation, details, texts, insights, agent>>

NextStructured == ExtractStructuredData

SpecStructured == InitStructured /\ [][NextStructured]_vars

RECURSIVE DocumentItems(_)
\* the elements of the blocks that parse, in document order
DocumentItems(json_ld_scripts) ==
    IF json_ld_scripts = <<>> THEN <<>>
    ELSE Head(json_ld_scripts).items \o DocumentItems(Tail(json_ld_scripts))

IsJobPosting(item) == item.kind = "dict" /\ item.type = "JobPosting"

\* C26: when the page holds several JobPosting objects, in one block or in
\* several, the title, company and description returned are those of the
\* first one in document order
FirstJobPostingWins ==
    (call.pc = "done") =>
        LET postings == SelectSeq(DocumentItems(call.args), IsJobPosting)
        IN  Len(postings) >= 2 => call.result.value = FromPosting(postings[1])

(***************************************************************************)
(* Application life cycle: lifespan and the request handlers of main.py    *)
(***************************************************************************)
\* the module singleton before startup and when the key is not configured
NoneAgent == [none |-> TRUE]

\* WebScraper.__init__: the scraper owns the client it created
WebScraper(client) == [client |-> client]

\* ExtractionAgent() with its default use_web_scraping = True
DefaultExtractionAgent(client) ==
    [none |-> FALSE, use_web_scraping |-> TRUE, web_scraper |-> WebScraper(client)]

\* httpx.AsyncClient(...) appends a client that is open
AsyncClient(clients) == Append(clients, [open |-> TRUE])

\* client.aclose()
aclose(clients, client) == [clients EXCEPT ![client].open = FALSE]

\* GenerationAgent(...) of this package creates no HTTP client
GenerationAgent(clients) == clients

\* variant: shutdown logs and returns
LifespanShutdownLogOnly(a, clients) == clients

\* lines 92-95: what the code after the yield does to the clients
LifespanShutdown(a, clients) ==
    IF ~a.none /\ a.use_web_scraping THEN aclose(clients, a.web_scraper.client) ELSE clients

Response(handler, status_code) == [handler |-> handler, status_code |-> status_code]

HandlerOutcomes == {200, 400, 500}

(***************************************************************************)
(* SpecLifespan: startup, requests, shutdown                               *)
(***************************************************************************)
MaxStarts == 2
MaxRequests == 2

NewApp(is_configured) ==
    [op |-> "lifespan", pc |-> "startup", is_configured |-> is_configured,
     generation_agent |-> FALSE, starts |-> 0, clients |-> <<>>, responses |-> <<>>]

InitLifespan ==
    /\ agent = NoneAgent
    /\ call \in {NewApp(b) : b \in BOOLEAN}
    /\ content = TextEmpty /\ validation = NoValidation
    /\ details = NoDetails /\ texts = NoTexts /\ insights = NoInsights

\* lines 64-90: the agents are created when the key is configured
LifespanStartup ==
    /\ call.pc \in {"startup", "stopped"}
    /\ call.starts < MaxStarts
    /\ IF call.is_configured
           THEN /\ agent' = DefaultExtractionAgent(Len(call.clients) + 1)
                /\ call' = [call EXCEPT !.pc = "serving", !.starts = @ + 1,
                                        !.clients = GenerationAgent(AsyncClient(@)),
                                        !.generation_agent = TRUE]
           ELSE /\ agent' = NoneAgent
                /\ call' = [call EXCEPT !.pc = "serving", !.starts = @ + 1,
                                        !.generation_agent = FALSE]
    /\ UNCHANGED <<content, validation, details, texts, insights>>

Respond(handler, status_code, clients) ==
    /\ call' = [call EXCEPT !.responses = Append(@, Response(handler, status_code)),
                            !.clients = clients]
    /\ UNCHANGED <<content, validation, details, texts, insights, agent>>

Serving == call.pc = "serving" /\ Len(call.responses) < MaxRequests

\* GET /health
health_check ==
    /\ Serving
    /\ Respond("health_check", 200, call.clients)

\* POST /extract-job-details: both extractions run on the singleton
extract_job_details ==
    /\ Serving
    /\ IF ~call.is_configured \/ agent.none
           THEN Respond("extract_job_details", 503, call.clients)
           ELSE \E status_code \in HandlerOutcomes :
                    Respond("extract_job_details", status_code, call.clients)

\* POST /generate-materials: a GenerationAgent is created for the request
generate_materials ==
    /\ Serving
    /\ IF ~call.is_configured \/ ~call.generation_agent
           THEN Respond("generate_materials", 503, call.clients)
           ELSE \E status_code \in HandlerOutcomes :
                    Respond("generate_materials", status_code, GenerationAgent(call.clients))

\* POST /generate-complete: the singleton without a check (None raises inside
\* the try and is answered 500), then a GenerationAgent for the request
generate_complete ==
    /\ Serving
    /\ IF agent.none
           THEN Respond("generate_complete", 500, call.clients)
           ELSE \E status_code \in HandlerOutcomes :
                    Respond("generate_complete", status_code,
                            IF status_code = 200 THEN GenerationAgent(call.clients)
                            ELSE call.clients)

\* lines 92-95: the code after the yield
LifespanShutdownStep ==
    /\ call.pc = "serving"
    /\ call' = [call EXCEPT !.pc = "stopped", !.clients = LifespanShutdown(agent, @)]
    /\ UNCHANGED <<content, validation, details, texts, insights, agent>>

NextLifespan ==
    \/ LifespanStartup
    \/ health_check
    \/ extract_job_details
    \/ generate_materials
    \/ generate_complete
    \/ LifespanShutdownStep

SpecLifespan == InitLifespan /\ [][NextLifespan]_vars

OpenClients == {k \in 1..Len(call.clients) : call.clients[k].open}

SharedAgent(use_web_scraping) ==
    [use_web_scraping |-> use_web_scraping, web_scraper |-> use_web_scraping,
     client |-> [requests |-> 0]]

\* await self.client.get(...): the shared client serves one more request
ClientGet(a) == [a EXCEPT !.client.requests = @ + 1]

\* variant: the place in the list of proxies is kept on the shared scraper
ProxyTurnOnScraper(a, c) == Max(1, Min(Len(proxies), a.client.requests))

\* for proxy_url in proxies: the loop variable is local to the call
ProxyTurn(a, c) == c.proxy

\* the code from the entry of the method to its first suspension point
Started(a, c) == IF c.op = "content" THEN ContentBegin(a, c) ELSE DetailsBegin(a, c)

\* the code from one suspension point, resumed with response r, to the next
Resumed(a, c, r) ==
    CASE c.pc = "direct" -> AfterDirect(Logged(c, "direct", r), r)
      [] c.pc = "proxy" ->
            LET turn == ProxyTurn(a, c)
            IN  AfterProxy(Logged([c EXCEPT !.proxy = turn], proxies[turn], r), r)
      [] c.pc = "llm" -> Answered(a, [Logged(c, "model", r) EXCEPT !.answer = r], r)

(***************************************************************************)
(* SpecGather: two invocations of one operation, interleaved               *)
(***************************************************************************)
GatherFetched ==
    {[kind |-> "page", page |-> ParsedPage(S_DataEngineer, S_Acme, TextPosting)],
     [kind |-> "page", page |-> ParsedPage(S_Empty, S_Empty, TextErrorPage)],
     [kind |-> "timeout", page |-> NoPage]}

GatherAnswers(op) ==
    IF op = "content"
    THEN {[kind |-> "text", text |-> TextPosting], [kind |-> "text", text |-> TextErrorPage],
          [kind |-> "error", text |-> TextEmpty]}
    ELSE {[kind |-> "dict", dict |-> Dict_Camel(S_DataEngineer, S_Acme)],
          [kind |-> "other", dict |-> Dict_Empty],
          [kind |-> "error", dict |-> Dict_Empty]}

GatherArgs(op) ==
    IF op = "content"
    THEN {[job_url |-> UrlGood], [job_url |-> UrlNoScheme]}
    ELSE {[job_content |-> 1200, job_url |-> UrlGood],
          [job_content |-> 1200, job_url |-> UrlNone],
          [job_content |-> 99, job_url |-> UrlGood]}

Gather(first, second) ==
    [op |-> "gather", inv |-> <<first, second>>, got |-> << <<>>, <<>> >>]

InitGather ==
    /\ agent \in {SharedAgent(b) : b \in BOOLEAN}
    /\ call \in {Gather(NewCall(op, a1), NewCall(op, a2)) :
                    <<op, a1, a2>> \in
                        UNION {{op} \X GatherArgs(op) \X GatherArgs(op) :
                                   op \in {"content", "details"}}}
    /\ content = TextEmpty /\ validation = NoValidation
    /\ details = NoDetails /\ texts = NoTexts /\ insights = NoInsights

\* an invocation runs from its entry to its first await
GatherStart ==
    /\ \E i \in 1..2 :
           /\ call.inv[i].pc = "start"
           /\ call' = [call EXCEPT !.inv[i] = Started(agent, @)]
    /\ UNCHANGED <<content, validation, details, texts, insights, agent>>

\* an invocation suspended on a GET of the shared client is resumed
GatherFetch ==
    /\ \E i \in 1..2 :
           /\ call.inv[i].pc \in {"direct", "proxy"}
           /\ \E r \in GatherFetched :
                  call' = [call EXCEPT !.inv[i] = Resumed(agent, @, r),
                                       !.got[i] = Append(@, r)]
    /\ agent' = ClientGet(agent)
    /\ UNCHANGED <<content, validation, details, texts, insights>>

\* an invocation suspended on its model call is resumed
GatherModel ==
    /\ \E i \in 1..2 :
           /\ call.inv[i].pc = "llm"
           /\ \E r \in GatherAnswers(call.inv[i].op) :
                  call' = [call EXCEPT !.inv[i] = Resumed(agent, @, r),
                                       !.got[i] = Append(@, r)]
    /\ UNCHANGED <<content, validation, details, texts, insights, agent>>

NextGather == GatherStart \/ GatherFetch \/ GatherModel

SpecGather == InitGather /\ [][NextGather]_vars

RECURSIVE Replay(_, _, _)
\* the invocation c run by itself on agent a, given the responses rs in turn
Replay(a, c, rs) ==
    IF rs = <<>> THEN c
    ELSE Replay(IF c.pc = "llm" THEN a ELSE ClientGet(a), Resumed(a, c, Head(rs)), Tail(rs))

\* what invocation i comes to when it runs alone on a fresh agent with its own
\* arguments and the responses it has received
Alone(i) ==
    LET fresh == SharedAgent(agent.use_web_scraping)
        c == NewCall(call.inv[i].op, call.inv[i].args)
    IN  IF call.inv[i].pc = "start" THEN c
        ELSE Replay(fresh, Started(fresh, c), call.got[i])

\* C24: at every point of every interleaving, each of the two invocations is
\* where it would be had it run alone with its own arguments and the responses
\* to its own requests, result or error included
InvocationsIndependent == \A i \in 1..2 : call.inv[i] = Alone(i)

\* C24 witness: the first invocation returned the page of the first proxy
\* while the second, after three failed fetches of its own, is suspended on
\* its model call
ReturnedWhileOtherSuspended ==
    /\ call.inv[1].op = "content" /\ call.inv[1].result.status = "returned"
    /\ Len(call.inv[1].log) = 2 /\ call.inv[1].result.value.source = "web_scraping"
    /\ call.inv[2].pc = "llm" /\ Len(call.inv[2].log) = 3
    /\ agent.client.requests = 5

====
